---- MODULE Spec2Model ----
(***************************************************************************)
(* Room session synchronization core of watch-party-api (src/server.js).   *)
(*                                                                         *)
(* Every socket.io handler is an async function: it runs synchronously up  *)
(* to an `await` of a repository call, the repository executes the call    *)
(* atomically at some later moment, and the handler resumes after it.      *)
(* One action of this module is one such segment of one handler: the       *)
(* repository call the handler is waiting for, executed on the persisted   *)
(* state of that moment, followed by the synchronous code up to the next   *)
(* await.  Where the order of the resumptions matters (the broadcast that  *)
(* follows a playback write) the resumption is an action of its own.       *)
(* Handlers of any connections interleave at these points.                 *)
(***************************************************************************)
EXTENDS Integers, Sequences, FiniteSets, TLC

---------------------------------------------------------------------------
(* Bounds of the model *)

\* rooms ever created (room ids are 1..MaxRooms, handed out in order)
MaxRooms == 2
\* inbound events dispatched in one behaviour
MaxEvents == 3
\* largest time / url value a playback payload carries
MaxArg == 1

\* live socket.io connections
Conns == {"c1", "c2"}
\* handler invocations that can be suspended at the same time
Slots == {1, 2}

---------------------------------------------------------------------------
(* Identifiers as they arrive in payloads (strings) and as the repository  *)
(* stores them (ObjectIds).  "u1" and "u2" are the 24-digit hex ids of the *)
(* two users of the User collection, "U1" is the same hex string as "u1"   *)
(* written in upper case, "u9" is a well-formed id of no user, "u2 " is    *)
(* "u2" followed by white space and "zz" is no ObjectId at all.            *)

Users == {"u1", "u2"}
HexStrings == {"u1", "U1", "u2", "u9"}
UserIdInputs == {"u1", "U1", "u2", "u9", "u2 ", "zz"}

\* String.prototype.trim
Trim(id) == IF id = "u2 " THEN "u2" ELSE id

\* isValidObjectId: mongoose.Types.ObjectId.isValid(id.trim())
isValidObjectId(id) == Trim(id) \in HexStrings

\* Mongoose can cast the string to an ObjectId (the untrimmed string is cast)
CanCast(id) == id \in HexStrings

\* the ObjectId a hex string is cast to, written as ObjectId.toString()
\* writes it: lower-case hex
ToObjectId(id) == IF id = "U1" THEN "u1" ELSE id

\* room ids: 0 is a malformed id, 1..MaxRooms are well-formed ids in the form
\* room._id.toString() produces
RoomIds == 1..MaxRooms
isValidRoomId(roomId) == roomId \in RoomIds

---------------------------------------------------------------------------
VARIABLES
    rooms,            \* Room collection: room id -> document (exists flag)
    roomCount,        \* number of Room documents ever saved
    messages,         \* Message collection, in insertion order
    socketToUserMap,  \* socket.id -> userId as given in the payload, or ""
    joined,           \* socket.io adapter: socket.id -> room channels joined
    connected,        \* socket.id -> the connection is live
    voice,            \* socket.id -> the roomIds whose `${roomId}-voice`
                      \* channel the socket has joined
    h,                \* suspended handler invocations
    started,          \* inbound events dispatched so far
    emitted,          \* events emitted by the last step, in order
    dismissed,        \* rooms for which room-dismissed has been broadcast
    lastJoin,         \* the join-room that completed last, nothing else since
    origin,           \* the connection whose handler emitted `emitted`, or ""
    uncaught,         \* the promise of some handler was rejected
    alone,            \* the leave-room / disconnect that runs with no other
                      \* handler in flight: the rooms it found, what it emitted
    order             \* join-room then leave-room of one connection for the
                      \* same room and user, dispatched back to back

\* room ids as payloads carry them: a malformed id, or the id of a room that
\* has been created (it may have been deleted since)
RoomIdInputs == 0..roomCount

vars == <<rooms, roomCount, messages, socketToUserMap, joined, connected, h,
          started, emitted, dismissed, lastJoin, origin, uncaught, alone, order,
          voice>>

NoRoom == [exists |-> FALSE, admin |-> "", users |-> <<>>, videoUrl |-> 0,
           isPlaying |-> FALSE, playbackTime |-> 0]

\* h[s].overtaken: room-dismissed was broadcast for the room of this join-room
\* invocation while it was suspended
Idle == [op |-> "idle", conn |-> "", roomId |-> 0, userId |-> "", arg |-> 0,
         pc |-> "idle", loc |-> <<>>, overtaken |-> FALSE]

\* a handler invocation suspended at its first repository call
Invocation(op, c, roomId, userId, arg, pc) ==
    [op |-> op, conn |-> c, roomId |-> roomId, userId |-> userId, arg |-> arg,
     pc |-> pc, loc |-> <<>>, overtaken |-> FALSE]

\* io.to(roomId).emit(ev, val)
ToRoom(ev, roomId, val) ==
    [ev |-> ev, to |-> "room", room |-> roomId, conn |-> "", val |-> val]

\* socket.emit(ev, val)
ToSocket(ev, c, val) ==
    [ev |-> ev, to |-> "socket", room |-> 0, conn |-> c, val |-> val]

\* io.to(`${roomId}-voice`).emit(ev, val)
ToVoice(ev, roomId, val) ==
    [ev |-> ev, to |-> "voice", room |-> roomId, conn |-> "", val |-> val]

\* io.to(to).emit(ev, val): `to` is the name of a socket.io room, which is a
\* socket id, a room channel or a voice channel
To(to, ev, val) ==
    [ev |-> ev, to |-> to.to, room |-> to.room, conn |-> to.conn, val |-> val]

\* mutant of RoomError: the error goes to the other connection
RoomErrorToOther(c) ==
    ToSocket("room-error", CHOOSE d \in Conns : d # c, <<>>)

\* socket.emit("room-error", ...) of a catch block or a failed lookup
RoomError(c) == ToSocket("room-error", c, <<>>)

\* socket.emit("room-error", "Only the admin can set the video")
NotAdmin(c) == ToSocket("room-error", c, <<"Only the admin can set the video">>)

---------------------------------------------------------------------------
(* Repository operations *)

\* Room.findById(roomId): the document, or null (exists = FALSE)
FindById(roomId) == IF roomId \in RoomIds THEN rooms[roomId] ELSE NoRoom

\* mutant of UserFound: every well-formed id is taken for a user
UserFoundAny(userId) == TRUE

\* User.findById(userId).lean() finds a user
UserFound(userId) == ToObjectId(userId) \in Users

\* ids of the rooms whose admin is userId
RoomsOfAdmin(userId) ==
    {r \in RoomIds : rooms[r].exists /\ rooms[r].admin = ToObjectId(userId)}

\* the first document of a non-empty set of rooms, in insertion order
FirstRoom(S) == CHOOSE r \in S : \A q \in S : r <= q

\* users.some((u) => u.id.toString() === userId)
UserInList(users, userId) == \E i \in 1..Len(users) : users[i] = userId

\* $pull: { users: { id: userId } }
Pull(users, userId) == SelectSeq(users, LAMBDA u : u # ToObjectId(userId))

\* $push: { users: { id: userId, ... } }
Push(users, userId) == Append(users, ToObjectId(userId))

\* Message.deleteMany({ room: roomId })
DeleteMany(msgs, roomId) == SelectSeq(msgs, LAMBDA m : m.room # roomId)

\* fetchRoomDetails(roomId): the participants, or null
Null == <<"null">>
fetchRoomDetails(roomId) ==
    IF FindById(roomId).exists THEN FindById(roomId).users ELSE Null

\* Room.find({ "users.id": userId }), with isAdmin of each room as the
\* disconnect handler computes it from the documents it was given
UserRooms(userId) ==
    LET S == {r \in RoomIds : rooms[r].exists
                              /\ UserInList(rooms[r].users, ToObjectId(userId))}
        Ordered[n \in 0..MaxRooms] ==
            IF n = 0 THEN <<>>
            ELSE IF n \in S
                 THEN Append(Ordered[n - 1],
                             [room |-> n, isAdmin |-> rooms[n].admin = userId])
                 ELSE Ordered[n - 1]
    IN  Ordered[MaxRooms]

---------------------------------------------------------------------------
\* no join-room has completed, or something else was dispatched since
NoJoin == [roomId |-> 0, userId |-> "", users |-> <<>>]

\* no handler is running alone
NotAlone == [op |-> "none", conn |-> "", roomId |-> 0, userId |-> "",
             rooms |-> [r \in RoomIds |-> NoRoom], seen |-> <<>>]

\* the last events dispatched were not a join-room and its leave-room
NoOrder == [conn |-> "", roomId |-> 0, userId |-> "", stage |-> "none"]

Init ==
    /\ rooms = [r \in RoomIds |-> NoRoom]
    /\ roomCount = 0
    /\ messages = <<>>
    /\ socketToUserMap = [c \in Conns |-> ""]
    /\ joined = [c \in Conns |-> {}]
    /\ connected = [c \in Conns |-> TRUE]
    /\ voice = [c \in Conns |-> {}]
    /\ h = [s \in Slots |-> Idle]
    /\ started = 0
    /\ emitted = <<>>
    /\ dismissed = {}
    /\ lastJoin = NoJoin
    /\ origin = ""
    /\ uncaught = FALSE
    /\ alone = NotAlone
    /\ order = NoOrder

\* the slot a newly dispatched handler invocation occupies
FreeSlot == CHOOSE s \in Slots : h[s] = Idle /\ \A q \in Slots : h[q] = Idle => s <= q

\* an inbound event can be dispatched on connection c; the connections are
\* named in the order in which they send their first event
CanDispatch(c) ==
    /\ connected[c]
    /\ (started = 0 => c = "c1")
    /\ started < MaxEvents
    /\ \E s \in Slots : h[s] = Idle

\* the handler returns (or its catch block has run): the invocation is over
Finish(s) == h' = [h EXCEPT ![s] = Idle]

\* the handler awaits its next repository call
Await(s, pc) == h' = [h EXCEPT ![s].pc = pc]
AwaitWith(s, pc, loc) == h' = [h EXCEPT ![s].pc = pc, ![s].loc = loc]

Repo == <<rooms, roomCount, messages>>
Sockets == <<socketToUserMap, joined, connected, voice>>

\* socket.io has delivered event op of connection c to its handler, which ran
\* up to its first await (h' # h) or ended in its validation
Dispatched(op, c, roomId, userId) ==
    /\ origin' = IF emitted' = <<>> THEN "" ELSE c
    /\ alone' = IF /\ \A q \in Slots : h[q] = Idle
                   /\ \/ h' # h /\ op \in {"leave-room", "disconnect"}
                      \/ op = "get-room-details"
                THEN [op |-> op, conn |-> c, roomId |-> roomId, userId |-> userId,
                      rooms |-> rooms, seen |-> emitted']
                ELSE NotAlone
    /\ order' = IF op = "join-room" /\ h' # h
                THEN [conn |-> c, roomId |-> roomId, userId |-> userId,
                      stage |-> "join"]
                ELSE IF /\ op = "leave-room" /\ h' # h
                        /\ order = [conn |-> c, roomId |-> roomId,
                                    userId |-> userId, stage |-> "join"]
                THEN [order EXCEPT !.stage = "leave"]
                ELSE NoOrder
    /\ UNCHANGED uncaught

\* the handler of slot s resumed after a repository call and ran up to its
\* next await or its end
Resumed(s) ==
    /\ origin' = IF emitted' = <<>> THEN "" ELSE h[s].conn
    /\ alone' = IF alone = NotAlone THEN NotAlone
                ELSE [alone EXCEPT !.seen = @ \o emitted']
    /\ UNCHANGED <<order, uncaught>>

---------------------------------------------------------------------------
(* create-room *)

\* mutant of NewRoom: the admin is not put into the users list
NewRoomWithoutAdmin(userId) ==
    [exists |-> TRUE, admin |-> ToObjectId(userId), users |-> <<>>,
     videoUrl |-> 0, isPlaying |-> FALSE, playbackTime |-> 0]

\* the document `new Room({...})` of the create-room handler builds
NewRoom(userId) ==
    [exists |-> TRUE, admin |-> ToObjectId(userId),
     users |-> <<ToObjectId(userId)>>, videoUrl |-> 0, isPlaying |-> FALSE,
     playbackTime |-> 0]

\* create-room handlers that have not saved their room yet
CreatesInFlight ==
    Cardinality({s \in Slots : h[s].op = "create-room" /\ h[s].pc # "cr_details"})

\* socket.on("create-room"): validation, then await User.findById
CreateRoom(c, userId, nameOk) ==
    /\ CanDispatch(c)
    /\ roomCount + CreatesInFlight < MaxRooms
    /\ started' = started + 1
    /\ IF ~isValidObjectId(userId) \/ ~nameOk
       THEN /\ emitted' = <<RoomError(c)>>
            /\ UNCHANGED h
       ELSE /\ h' = [h EXCEPT ![FreeSlot] =
                        Invocation("create-room", c, 0, userId, 0, "cr_user")]
            /\ emitted' = <<>>
    /\ lastJoin' = NoJoin
    /\ UNCHANGED <<Repo, Sockets, dismissed>>

\* User.findById(userId) resolves; await Room.findOne({ admin: userId })
CreateRoomFindUser(s) ==
    /\ h[s].pc = "cr_user"
    /\ IF CanCast(h[s].userId) /\ UserFound(h[s].userId)
       THEN Await(s, "cr_find") /\ emitted' = <<>>
       ELSE Finish(s) /\ emitted' = <<RoomError(h[s].conn)>>
    /\ UNCHANGED <<Repo, Sockets, started, dismissed, lastJoin>>

\* Room.findOne({ admin: userId }) resolves
CreateRoomFindExisting(s) ==
    /\ h[s].pc = "cr_find"
    /\ IF RoomsOfAdmin(h[s].userId) = {}
       THEN Await(s, "cr_save")
       ELSE AwaitWith(s, "cr_delone", <<FirstRoom(RoomsOfAdmin(h[s].userId))>>)
    /\ emitted' = <<>>
    /\ UNCHANGED <<Repo, Sockets, started, dismissed, lastJoin>>

\* Room.deleteOne({ admin: userId }) resolves
CreateRoomDeleteOne(s) ==
    /\ h[s].pc = "cr_delone"
    /\ rooms' = IF RoomsOfAdmin(h[s].userId) = {} THEN rooms
                ELSE [rooms EXCEPT ![FirstRoom(RoomsOfAdmin(h[s].userId))] = NoRoom]
    /\ Await(s, "cr_delmsgs")
    /\ emitted' = <<>>
    /\ UNCHANGED <<roomCount, messages, Sockets, started, dismissed, lastJoin>>

\* Message.deleteMany({ room: existingRoom._id }) resolves
CreateRoomDeleteMessages(s) ==
    /\ h[s].pc = "cr_delmsgs"
    /\ messages' = DeleteMany(messages, h[s].loc[1])
    /\ Await(s, "cr_save")
    /\ emitted' = <<>>
    /\ UNCHANGED <<rooms, roomCount, Sockets, started, dismissed, lastJoin>>

\* room.save() resolves; socket.join, socketToUserMap.set, room-created,
\* await fetchRoomDetails
CreateRoomSave(s) ==
    /\ h[s].pc = "cr_save"
    /\ roomCount' = roomCount + 1
    /\ rooms' = [rooms EXCEPT ![roomCount'] = NewRoom(h[s].userId)]
    /\ joined' = [joined EXCEPT ![h[s].conn] = @ \cup {roomCount'}]
    /\ socketToUserMap' = [socketToUserMap EXCEPT ![h[s].conn] = h[s].userId]
    /\ emitted' = <<ToRoom("room-created", roomCount', rooms'[roomCount'].users)>>
    /\ h' = [h EXCEPT ![s].pc = "cr_details", ![s].roomId = roomCount']
    /\ UNCHANGED <<messages, connected, voice, started, dismissed, lastJoin>>

\* fetchRoomDetails(roomId) resolves; room-details is emitted (null included)
CreateRoomDetails(s) ==
    /\ h[s].pc = "cr_details"
    /\ emitted' = <<ToRoom("room-details", h[s].roomId, fetchRoomDetails(h[s].roomId))>>
    /\ Finish(s)
    /\ UNCHANGED <<Repo, Sockets, started, dismissed, lastJoin>>

---------------------------------------------------------------------------
(* join-room *)

\* socket.on("join-room"): validation, then await Room.findById
JoinRoom(c, roomId, userId) ==
    /\ CanDispatch(c)
    /\ started' = started + 1
    /\ IF ~isValidObjectId(userId) \/ ~isValidRoomId(roomId)
       THEN /\ emitted' = <<RoomError(c)>>
            /\ UNCHANGED h
       ELSE /\ h' = [h EXCEPT ![FreeSlot] =
                        Invocation("join-room", c, roomId, userId, 0, "jr_find")]
            /\ emitted' = <<>>
    /\ lastJoin' = IF lastJoin.roomId = roomId /\ lastJoin.userId = userId
                   THEN lastJoin ELSE NoJoin
    /\ UNCHANGED <<Repo, Sockets, dismissed>>

\* the userExists test of the join-room handler, on the document it read
UserExists(room, userId) == UserInList(room.users, userId)

\* the join-room handler of slot s has run socket.join(roomId) and
\* socketToUserMap.set(socket.id, userId)
JoinRegistered(s) ==
    h[s].op = "join-room" /\ h[s].pc \in {"jr_push", "jr_refetch", "jr_details"}

\* Room.findById(roomId) resolves; await User.findById
JoinRoomFindRoom(s) ==
    /\ h[s].pc = "jr_find"
    /\ IF FindById(h[s].roomId).exists
       THEN /\ AwaitWith(s, "jr_user", <<UserExists(FindById(h[s].roomId), h[s].userId)>>)
            /\ emitted' = <<>>
       ELSE Finish(s) /\ emitted' = <<RoomError(h[s].conn)>>
    /\ UNCHANGED <<Repo, Sockets, started, dismissed, lastJoin>>

\* User.findById(userId) resolves; socket.join, socketToUserMap.set, then
\* await the $push when the user was not in the document read before
JoinRoomFindUser(s) ==
    /\ h[s].pc = "jr_user"
    /\ IF CanCast(h[s].userId) /\ UserFound(h[s].userId)
       THEN /\ joined' = [joined EXCEPT ![h[s].conn] = @ \cup {h[s].roomId}]
            /\ socketToUserMap' = [socketToUserMap EXCEPT ![h[s].conn] = h[s].userId]
            /\ Await(s, IF h[s].loc[1] THEN "jr_refetch" ELSE "jr_push")
            /\ emitted' = <<>>
       ELSE /\ Finish(s)
            /\ emitted' = <<RoomError(h[s].conn)>>
            /\ UNCHANGED <<joined, socketToUserMap>>
    /\ UNCHANGED <<Repo, connected, voice, started, dismissed, lastJoin>>

\* Room.findByIdAndUpdate(roomId, { $push: { users: ... } }) resolves
JoinRoomPush(s) ==
    /\ h[s].pc = "jr_push"
    /\ rooms' = IF rooms[h[s].roomId].exists
                THEN [rooms EXCEPT ![h[s].roomId].users = Push(@, h[s].userId)]
                ELSE rooms
    /\ Await(s, "jr_refetch")
    /\ emitted' = <<>>
    /\ UNCHANGED <<roomCount, messages, Sockets, started, dismissed, lastJoin>>

\* Room.findById(roomId).lean() resolves; room-joined, update-participants,
\* await fetchRoomDetails (updatedRoom.admin of null throws into the catch)
JoinRoomRefetch(s) ==
    /\ h[s].pc = "jr_refetch"
    /\ IF rooms[h[s].roomId].exists
       THEN /\ emitted' = <<ToSocket("room-joined", h[s].conn,
                                      [roomId |-> h[s].roomId,
                                       users |-> rooms[h[s].roomId].users]),
                            ToRoom("update-participants", h[s].roomId,
                                   rooms[h[s].roomId].users)>>
            /\ Await(s, "jr_details")
       ELSE Finish(s) /\ emitted' = <<RoomError(h[s].conn)>>
    /\ UNCHANGED <<Repo, Sockets, started, dismissed, lastJoin>>

\* fetchRoomDetails(roomId) resolves
JoinRoomDetails(s) ==
    /\ h[s].pc = "jr_details"
    /\ emitted' = IF fetchRoomDetails(h[s].roomId) # Null
                  THEN <<ToRoom("room-details", h[s].roomId,
                                fetchRoomDetails(h[s].roomId))>>
                  ELSE <<RoomError(h[s].conn)>>
    /\ Finish(s)
    /\ lastJoin' = IF \E q \in Slots \ {s} : h[q] # Idle
                   THEN NoJoin
                   ELSE IF lastJoin.roomId = h[s].roomId
                           /\ lastJoin.userId = h[s].userId
                   THEN lastJoin
                   ELSE [roomId |-> h[s].roomId, userId |-> h[s].userId,
                         users |-> FindById(h[s].roomId).users]
    /\ UNCHANGED <<Repo, Sockets, started, dismissed>>

---------------------------------------------------------------------------
(* play-video, pause-video, resume-video, seek-video *)

PlaybackOps == {"play-video", "pause-video", "resume-video", "seek-video"}

\* the event a playback handler broadcasts
PlaybackEvent(op) == IF op = "play-video" THEN "load-video" ELSE op

\* mutant of IsAdmin: the ids are compared as ObjectIds
IsAdminAsObjectId(room, adminId) == room.admin = ToObjectId(adminId)

\* room.admin.toString() === adminId
IsAdmin(room, adminId) == room.admin = adminId

\* mutant of PlaybackUpdate: resume-video writes isPlaying: false
PlaybackUpdateResumePaused(room, op, arg) ==
    IF op = "play-video"
    THEN [room EXCEPT !.videoUrl = arg, !.isPlaying = FALSE, !.playbackTime = 0]
    ELSE IF op = "seek-video"
    THEN [room EXCEPT !.playbackTime = arg]
    ELSE [room EXCEPT !.isPlaying = FALSE, !.playbackTime = arg]

\* mutant of PlaybackUpdate: play-video starts the new video at once
PlaybackUpdateAutoplay(room, op, arg) ==
    IF op = "play-video"
    THEN [room EXCEPT !.videoUrl = arg, !.isPlaying = TRUE, !.playbackTime = 0]
    ELSE IF op = "pause-video"
    THEN [room EXCEPT !.isPlaying = FALSE, !.playbackTime = arg]
    ELSE IF op = "resume-video"
    THEN [room EXCEPT !.isPlaying = TRUE, !.playbackTime = arg]
    ELSE [room EXCEPT !.playbackTime = arg]

\* the fields a playback handler passes to Room.findByIdAndUpdate
PlaybackUpdate(room, op, arg) ==
    IF op = "play-video"
    THEN [room EXCEPT !.videoUrl = arg, !.isPlaying = FALSE, !.playbackTime = 0]
    ELSE IF op = "pause-video"
    THEN [room EXCEPT !.isPlaying = FALSE, !.playbackTime = arg]
    ELSE IF op = "resume-video"
    THEN [room EXCEPT !.isPlaying = TRUE, !.playbackTime = arg]
    ELSE [room EXCEPT !.playbackTime = arg]

\* the handler's answer to a request whose adminId is not the room's admin
Unauthorized(op, c) == IF op = "play-video" THEN <<NotAdmin(c)>> ELSE <<>>

\* socket.on(op): validation, then await Room.findById
Playback(op, c, roomId, arg, adminId) ==
    /\ CanDispatch(c)
    /\ started' = started + 1
    /\ IF ~isValidRoomId(roomId)
       THEN /\ emitted' = <<RoomError(c)>>
            /\ UNCHANGED h
       ELSE /\ h' = [h EXCEPT ![FreeSlot] =
                        Invocation(op, c, roomId, adminId, arg, "pb_find")]
            /\ emitted' = <<>>
    /\ lastJoin' = NoJoin
    /\ UNCHANGED <<Repo, Sockets, dismissed>>

\* Room.findById(roomId) resolves; the admin check; await findByIdAndUpdate
PlaybackFindRoom(s) ==
    /\ h[s].pc = "pb_find"
    /\ IF ~FindById(h[s].roomId).exists
       THEN Finish(s) /\ emitted' = <<RoomError(h[s].conn)>>
       ELSE IF ~IsAdmin(FindById(h[s].roomId), h[s].userId)
       THEN Finish(s) /\ emitted' = Unauthorized(h[s].op, h[s].conn)
       ELSE Await(s, "pb_update") /\ emitted' = <<>>
    /\ UNCHANGED <<Repo, Sockets, started, dismissed, lastJoin>>

\* Room.findByIdAndUpdate(roomId, {...}) resolves (no document: no change)
PlaybackWrite(s) ==
    /\ h[s].pc = "pb_update"
    /\ rooms' = IF rooms[h[s].roomId].exists
                THEN [rooms EXCEPT ![h[s].roomId] =
                         PlaybackUpdate(@, h[s].op, h[s].arg)]
                ELSE rooms
    /\ Await(s, "pb_emit")
    /\ emitted' = <<>>
    /\ UNCHANGED <<roomCount, messages, Sockets, started, dismissed, lastJoin>>

\* the handler resumes after the update: io.to(roomId).emit(event)
PlaybackEmit(s) ==
    /\ h[s].pc = "pb_emit"
    /\ emitted' = <<ToRoom(PlaybackEvent(h[s].op), h[s].roomId, h[s].arg)>>
    /\ Finish(s)
    /\ UNCHANGED <<Repo, Sockets, started, dismissed, lastJoin>>

---------------------------------------------------------------------------
(* send-message *)

\* socket.on("send-message"): validation, then await User.findById
SendMessage(c, roomId, userId) ==
    /\ CanDispatch(c)
    /\ started' = started + 1
    /\ IF ~isValidObjectId(userId) \/ ~isValidRoomId(roomId)
       THEN /\ emitted' = <<RoomError(c)>>
            /\ UNCHANGED h
       ELSE /\ h' = [h EXCEPT ![FreeSlot] =
                        Invocation("send-message", c, roomId, userId, 0, "sm_user")]
            /\ emitted' = <<>>
    /\ lastJoin' = NoJoin
    /\ UNCHANGED <<Repo, Sockets, dismissed>>

\* User.findById(msg.userId) resolves; await Room.findById
SendMessageFindUser(s) ==
    /\ h[s].pc = "sm_user"
    /\ IF CanCast(h[s].userId) /\ UserFound(h[s].userId)
       THEN Await(s, "sm_room") /\ emitted' = <<>>
       ELSE Finish(s) /\ emitted' = <<RoomError(h[s].conn)>>
    /\ UNCHANGED <<Repo, Sockets, started, dismissed, lastJoin>>

\* Room.findById(roomId) resolves; await newMessage.save()
SendMessageFindRoom(s) ==
    /\ h[s].pc = "sm_room"
    /\ IF FindById(h[s].roomId).exists
       THEN Await(s, "sm_save") /\ emitted' = <<>>
       ELSE Finish(s) /\ emitted' = <<RoomError(h[s].conn)>>
    /\ UNCHANGED <<Repo, Sockets, started, dismissed, lastJoin>>

\* the document `new Message({...})` of the send-message handler builds
NewMessage(roomId, userId) == [room |-> roomId, senderId |-> ToObjectId(userId)]

\* newMessage.save() resolves; receive-message is broadcast
SendMessageSave(s) ==
    /\ h[s].pc = "sm_save"
    /\ messages' = Append(messages, NewMessage(h[s].roomId, h[s].userId))
    /\ emitted' = <<ToRoom("receive-message", h[s].roomId,
                           NewMessage(h[s].roomId, h[s].userId))>>
    /\ Finish(s)
    /\ UNCHANGED <<rooms, roomCount, Sockets, started, dismissed, lastJoin>>

---------------------------------------------------------------------------
(* leave-room and disconnect *)
(* The disconnect handler runs the body of leave-room once for each room   *)
(* Room.find gave it; h[s].roomId is the room of the current iteration and *)
(* h[s].loc the rooms still to come.                                       *)

\* the invocation after the current room is done: leave-room returns, the
\* disconnect loop enters its next iteration up to that iteration's first await
NextIteration(rec) ==
    IF rec.op = "leave-room" \/ rec.loc = <<>>
    THEN Idle
    ELSE [rec EXCEPT !.roomId = Head(rec.loc).room,
                     !.loc = Tail(rec.loc),
                     !.pc = IF Head(rec.loc).isAdmin THEN "dp_del" ELSE "dp_pull"]

\* the room the next iteration of the disconnect loop dismisses, if any
NextDismissed(rec) ==
    IF rec.op = "disconnect" /\ rec.loc # <<>> /\ Head(rec.loc).isAdmin
    THEN {Head(rec.loc).room}
    ELSE {}

\* io.to(roomId).emit("room-dismissed") of that iteration
NextDismissal(rec) ==
    IF NextDismissed(rec) = {} THEN <<>>
    ELSE <<ToRoom("room-dismissed", Head(rec.loc).room, <<>>)>>

\* a suspended join-room for a room of R sees room-dismissed go out
Overtake(rec, R) ==
    IF rec.op = "join-room" /\ rec.roomId \in R
    THEN [rec EXCEPT !.overtaken = TRUE]
    ELSE rec

\* the current room is done after emitting evs
Continue(s, rec, evs) ==
    /\ h' = [q \in Slots |-> IF q = s THEN NextIteration(rec)
                             ELSE Overtake(h[q], NextDismissed(rec))]
    /\ emitted' = evs \o NextDismissal(rec)
    /\ dismissed' = dismissed \cup NextDismissed(rec)

\* socket.on("leave-room"): socket.leave, validation, await Room.findById
LeaveRoom(c, roomId, userId) ==
    /\ CanDispatch(c)
    /\ started' = started + 1
    /\ joined' = [joined EXCEPT ![c] = @ \ {roomId}]
    /\ IF ~isValidObjectId(userId) \/ ~isValidRoomId(roomId)
       THEN /\ emitted' = <<RoomError(c)>>
            /\ UNCHANGED h
       ELSE /\ h' = [h EXCEPT ![FreeSlot] =
                        Invocation("leave-room", c, roomId, userId, 0, "lr_find")]
            /\ emitted' = <<>>
    /\ lastJoin' = NoJoin
    /\ UNCHANGED <<Repo, socketToUserMap, connected, voice, dismissed>>

\* Room.findById(roomId) resolves; the admin dismisses the room and awaits
\* findByIdAndDelete, anyone else awaits the $pull
LeaveRoomFindRoom(s) ==
    /\ h[s].pc = "lr_find"
    /\ IF ~FindById(h[s].roomId).exists
       THEN Finish(s) /\ emitted' = <<>> /\ UNCHANGED dismissed
       ELSE IF IsAdmin(FindById(h[s].roomId), h[s].userId)
       THEN /\ emitted' = <<ToRoom("room-dismissed", h[s].roomId, <<>>)>>
            /\ dismissed' = dismissed \cup {h[s].roomId}
            /\ h' = [q \in Slots |-> IF q = s THEN [h[s] EXCEPT !.pc = "dp_del"]
                                     ELSE Overtake(h[q], {h[s].roomId})]
       ELSE Await(s, "dp_pull") /\ emitted' = <<>> /\ UNCHANGED dismissed
    /\ UNCHANGED <<Repo, Sockets, started, lastJoin>>

\* the disconnect event: socket.io has taken the socket out of every channel;
\* socketToUserMap.get / delete, await Room.find
Disconnect(c) ==
    /\ CanDispatch(c)
    /\ started' = started + 1
    /\ connected' = [connected EXCEPT ![c] = FALSE]
    /\ joined' = [joined EXCEPT ![c] = {}]
    /\ voice' = [voice EXCEPT ![c] = {}]
    /\ socketToUserMap' = [socketToUserMap EXCEPT ![c] = ""]
    /\ IF socketToUserMap[c] = ""
       THEN UNCHANGED h
       ELSE h' = [h EXCEPT ![FreeSlot] =
                     Invocation("disconnect", c, 0, socketToUserMap[c], 0, "dc_find")]
    /\ emitted' = <<>>
    /\ lastJoin' = NoJoin
    /\ UNCHANGED <<Repo, dismissed>>

\* Room.find({ "users.id": userId }) resolves; the loop enters its first
\* iteration
DisconnectFind(s) ==
    /\ h[s].pc = "dc_find"
    /\ Continue(s, [h[s] EXCEPT !.loc = UserRooms(h[s].userId)], <<>>)
    /\ UNCHANGED <<Repo, Sockets, started, lastJoin>>

\* Room.findByIdAndDelete(roomId) of the admin branch resolves
DepartDelete(s) ==
    /\ h[s].pc = "dp_del"
    /\ rooms' = [rooms EXCEPT ![h[s].roomId] = NoRoom]
    /\ Await(s, "dp_delmsgs")
    /\ emitted' = <<>>
    /\ UNCHANGED <<roomCount, messages, Sockets, started, dismissed, lastJoin>>

\* Message.deleteMany({ room: roomId }) of the admin branch resolves
DepartDeleteMessages(s) ==
    /\ h[s].pc = "dp_delmsgs"
    /\ messages' = DeleteMany(messages, h[s].roomId)
    /\ Continue(s, h[s], <<>>)
    /\ UNCHANGED <<rooms, roomCount, Sockets, started, lastJoin>>

\* Room.findByIdAndUpdate(roomId, { $pull: { users: { id: userId } } })
\* resolves, or rejects with a CastError
DepartPull(s) ==
    /\ h[s].pc = "dp_pull"
    /\ IF CanCast(h[s].userId)
       THEN /\ rooms' = IF rooms[h[s].roomId].exists
                        THEN [rooms EXCEPT ![h[s].roomId].users = Pull(@, h[s].userId)]
                        ELSE rooms
            /\ Await(s, "dp_refetch")
            /\ emitted' = <<>>
       ELSE /\ Finish(s)
            /\ emitted' = IF h[s].op = "leave-room" THEN <<RoomError(h[s].conn)>>
                          ELSE <<>>
            /\ UNCHANGED rooms
    /\ UNCHANGED <<roomCount, messages, Sockets, started, dismissed, lastJoin>>

\* Room.findById(roomId).lean() resolves: the room is gone, or it is empty
\* and is deleted, or update-participants is broadcast
DepartRefetch(s) ==
    /\ h[s].pc = "dp_refetch"
    /\ IF ~rooms[h[s].roomId].exists
       THEN Continue(s, h[s], <<>>)
       ELSE IF Len(rooms[h[s].roomId].users) = 0
       THEN Await(s, "dp_edel") /\ emitted' = <<>> /\ UNCHANGED dismissed
       ELSE /\ Await(s, "dp_details")
            /\ emitted' = <<ToRoom("update-participants", h[s].roomId,
                                   rooms[h[s].roomId].users)>>
            /\ UNCHANGED dismissed
    /\ UNCHANGED <<Repo, Sockets, started, lastJoin>>

\* Room.findByIdAndDelete(roomId) of the no-participants-left branch resolves
DepartEmptyDelete(s) ==
    /\ h[s].pc = "dp_edel"
    /\ rooms' = [rooms EXCEPT ![h[s].roomId] = NoRoom]
    /\ Await(s, "dp_edelmsgs")
    /\ emitted' = <<>>
    /\ UNCHANGED <<roomCount, messages, Sockets, started, dismissed, lastJoin>>

\* Message.deleteMany({ room: roomId }) of the no-participants-left branch
DepartEmptyDeleteMessages(s) ==
    /\ h[s].pc = "dp_edelmsgs"
    /\ messages' = DeleteMany(messages, h[s].roomId)
    /\ Continue(s, h[s], <<>>)
    /\ UNCHANGED <<rooms, roomCount, Sockets, started, lastJoin>>

\* fetchRoomDetails(roomId) resolves
DepartDetails(s) ==
    /\ h[s].pc = "dp_details"
    /\ Continue(s, h[s],
                IF fetchRoomDetails(h[s].roomId) # Null
                THEN <<ToRoom("room-details", h[s].roomId,
                              fetchRoomDetails(h[s].roomId))>>
                ELSE <<>>)
    /\ UNCHANGED <<Repo, Sockets, started, lastJoin>>

---------------------------------------------------------------------------
(* get-room-details *)

\* The connection sends get-room-details.  io.on("connection") registers no
\* listener for that event, so socket.io drops it: nothing runs, nothing is
\* emitted.
GetRoomDetails(c, roomId) ==
    /\ CanDispatch(c)
    /\ started' = started + 1
    /\ emitted' = <<>>
    /\ lastJoin' = NoJoin
    /\ UNCHANGED <<Repo, Sockets, h, dismissed>>

---------------------------------------------------------------------------
(* join-voice, leave-voice, voice-offer, voice-answer, voice-candidate,    *)
(* mic-enabled, mic-disabled: no awaits, each handler is one step          *)

SignalOps == {"voice-offer", "voice-answer", "voice-candidate"}
MicOps == {"mic-enabled", "mic-disabled"}

\* the values of `to` a signalling payload carries: the id of a socket, the
\* name of a room channel (a room id) or the name of a voice channel
ToInputs ==
    {[to |-> "socket", room |-> 0, conn |-> c] : c \in Conns}
        \cup {[to |-> "room", room |-> r, conn |-> ""] : r \in 1..roomCount}
        \cup {[to |-> "voice", room |-> r, conn |-> ""] : r \in 1..roomCount}

\* socket.join(`${roomId}-voice`); user-joined-voice to the voice channel
JoinVoice(c, roomId, userId) ==
    /\ CanDispatch(c)
    /\ started' = started + 1
    /\ voice' = [voice EXCEPT ![c] = @ \cup {roomId}]
    /\ emitted' = <<ToVoice("user-joined-voice", roomId, [userId |-> userId])>>
    /\ lastJoin' = NoJoin
    /\ UNCHANGED <<Repo, socketToUserMap, joined, connected, h, dismissed>>

\* socket.leave(`${roomId}-voice`); user-left-voice to the voice channel
LeaveVoice(c, roomId, userId) ==
    /\ CanDispatch(c)
    /\ started' = started + 1
    /\ voice' = [voice EXCEPT ![c] = @ \ {roomId}]
    /\ emitted' = <<ToVoice("user-left-voice", roomId, [userId |-> userId])>>
    /\ lastJoin' = NoJoin
    /\ UNCHANGED <<Repo, socketToUserMap, joined, connected, h, dismissed>>

\* io.to(to).emit(op, { from: socket.id, ... })
VoiceSignal(op, c, to) ==
    /\ CanDispatch(c)
    /\ started' = started + 1
    /\ emitted' = <<To(to, op, [from |-> c])>>
    /\ lastJoin' = NoJoin
    /\ UNCHANGED <<Repo, Sockets, h, dismissed>>

\* io.to(`${roomId}-voice`).emit(op, { userId })
MicState(op, c, roomId, userId) ==
    /\ CanDispatch(c)
    /\ started' = started + 1
    /\ emitted' = <<ToVoice(op, roomId, [userId |-> userId])>>
    /\ lastJoin' = NoJoin
    /\ UNCHANGED <<Repo, Sockets, h, dismissed>>

---------------------------------------------------------------------------
(* a repository call rejects *)

\* The call the handler of slot s awaits rejects (the database is unreachable,
\* the operation times out).  fetchRoomDetails catches it and returns null;
\* every handler but disconnect catches it and answers room-error; the
\* disconnect handler has no try/catch, so the promise it returned is
\* rejected and nothing handles the rejection.
RepoFails(s) ==
    /\ h[s] # Idle
    /\ h[s].pc # "pb_emit"
    /\ IF h[s].pc = "cr_details"
       THEN /\ Finish(s)
            /\ emitted' = <<ToRoom("room-details", h[s].roomId, Null)>>
            /\ UNCHANGED <<dismissed, uncaught>>
       ELSE IF h[s].pc = "dp_details"
       THEN Continue(s, h[s], <<>>) /\ UNCHANGED uncaught
       ELSE IF h[s].op = "disconnect"
       THEN /\ Finish(s)
            /\ emitted' = <<>>
            /\ uncaught' = TRUE
            /\ UNCHANGED dismissed
       ELSE /\ Finish(s)
            /\ emitted' = <<RoomError(h[s].conn)>>
            /\ UNCHANGED <<dismissed, uncaught>>
    /\ origin' = IF emitted' = <<>> THEN "" ELSE h[s].conn
    /\ alone' = NotAlone
    /\ order' = NoOrder
    /\ UNCHANGED <<Repo, Sockets, started, lastJoin>>

---------------------------------------------------------------------------
\* the adminId values a playback payload carries
AdminIdInputs == {"u1", "U1", "u2"}

Next ==
    \/ \E c \in Conns, userId \in UserIdInputs, nameOk \in BOOLEAN :
           CreateRoom(c, userId, nameOk) /\ Dispatched("create-room", c, 0, userId)
    \/ \E c \in Conns, roomId \in RoomIdInputs, userId \in UserIdInputs :
           JoinRoom(c, roomId, userId) /\ Dispatched("join-room", c, roomId, userId)
    \/ \E op \in PlaybackOps, c \in Conns, roomId \in RoomIdInputs,
          arg \in 1..MaxArg, adminId \in AdminIdInputs :
           Playback(op, c, roomId, arg, adminId) /\ Dispatched(op, c, roomId, adminId)
    \/ \E c \in Conns, roomId \in RoomIdInputs, userId \in UserIdInputs :
           SendMessage(c, roomId, userId) /\ Dispatched("send-message", c, roomId, userId)
    \/ \E c \in Conns, roomId \in RoomIdInputs, userId \in UserIdInputs :
           LeaveRoom(c, roomId, userId) /\ Dispatched("leave-room", c, roomId, userId)
    \/ \E c \in Conns :
           Disconnect(c) /\ Dispatched("disconnect", c, 0, socketToUserMap[c])
    \/ \E c \in Conns, roomId \in RoomIdInputs :
           GetRoomDetails(c, roomId) /\ Dispatched("get-room-details", c, roomId, "")
    \/ \E c \in Conns, roomId \in RoomIdInputs, userId \in Users :
           JoinVoice(c, roomId, userId) /\ Dispatched("join-voice", c, roomId, userId)
    \/ \E c \in Conns, roomId \in RoomIdInputs, userId \in Users :
           LeaveVoice(c, roomId, userId) /\ Dispatched("leave-voice", c, roomId, userId)
    \/ \E op \in SignalOps, c \in Conns, to \in ToInputs :
           VoiceSignal(op, c, to) /\ Dispatched(op, c, 0, "")
    \/ \E op \in MicOps, c \in Conns, roomId \in RoomIdInputs, userId \in Users :
           MicState(op, c, roomId, userId) /\ Dispatched(op, c, roomId, userId)
    \/ \E s \in Slots :
           /\ \/ CreateRoomFindUser(s)
              \/ CreateRoomFindExisting(s)
              \/ CreateRoomDeleteOne(s)
              \/ CreateRoomDeleteMessages(s)
              \/ CreateRoomSave(s)
              \/ CreateRoomDetails(s)
              \/ JoinRoomFindRoom(s)
              \/ JoinRoomFindUser(s)
              \/ JoinRoomPush(s)
              \/ JoinRoomRefetch(s)
              \/ JoinRoomDetails(s)
              \/ PlaybackFindRoom(s)
              \/ PlaybackWrite(s)
              \/ PlaybackEmit(s)
              \/ SendMessageFindUser(s)
              \/ SendMessageFindRoom(s)
              \/ SendMessageSave(s)
              \/ LeaveRoomFindRoom(s)
              \/ DisconnectFind(s)
              \/ DepartDelete(s)
              \/ DepartDeleteMessages(s)
              \/ DepartPull(s)
              \/ DepartRefetch(s)
              \/ DepartEmptyDelete(s)
              \/ DepartEmptyDeleteMessages(s)
              \/ DepartDetails(s)
           /\ Resumed(s)
    \/ \E s \in Slots : RepoFails(s)

Spec == Init /\ [][Next]_vars

\* The state Spec reaches by create-room {userId: u1} on c1, join-room
\* {roomId: 1, userId: u2} on c2 and leave-room {roomId: 1, userId: U1} on
\* c1, each run to its end: the $pull has taken the admin out of users.
AdminPulled ==
    /\ rooms = [r \in RoomIds |->
                   IF r = 1
                   THEN [exists |-> TRUE, admin |-> "u1", users |-> <<"u2">>,
                         videoUrl |-> 0, isPlaying |-> FALSE, playbackTime |-> 0]
                   ELSE NoRoom]
    /\ roomCount = 1
    /\ messages = <<>>
    /\ socketToUserMap = [c \in Conns |-> IF c = "c1" THEN "u1" ELSE "u2"]
    /\ joined = [c \in Conns |-> IF c = "c1" THEN {} ELSE {1}]
    /\ connected = [c \in Conns |-> TRUE]
    /\ voice = [c \in Conns |-> {}]
    /\ h = [s \in Slots |-> Idle]
    /\ emitted = <<ToRoom("room-details", 1, <<"u2">>)>>
    /\ dismissed = {}
    /\ lastJoin = NoJoin
    /\ origin = "c1"
    /\ uncaught = FALSE
    /\ alone = [op |-> "leave-room", conn |-> "c1", roomId |-> 1, userId |-> "U1",
                rooms |-> [r \in RoomIds |->
                              IF r = 1
                              THEN [exists |-> TRUE, admin |-> "u1",
                                    users |-> <<"u1", "u2">>, videoUrl |-> 0,
                                    isPlaying |-> FALSE, playbackTime |-> 0]
                              ELSE NoRoom],
                seen |-> <<ToRoom("update-participants", 1, <<"u2">>),
                           ToRoom("room-details", 1, <<"u2">>)>>]
    /\ order = NoOrder

\* the program goes on from that state: both connections have sent events,
\* and MaxEvents - 1 further events are followed
InitAdminPulled == AdminPulled /\ started = 1

SpecAdminPulled == InitAdminPulled /\ [][Next]_vars

---------------------------------------------------------------------------
(* Properties *)

AllIdle == \A s \in Slots : h[s] = Idle

\* C1: every room that exists has its admin in its users list and at least
\* one member, and no leave-room or disconnect takes the branch that deletes
\* a room because its membership became empty.
C1_AdminIsMember ==
    /\ \A r \in RoomIds :
           rooms[r].exists =>
               /\ UserInList(rooms[r].users, rooms[r].admin)
               /\ Len(rooms[r].users) >= 1
    /\ \A s \in Slots : h[s].pc # "dp_edel"

\* C2: no users list holds two entries with the same id.
C2_UniqueMembers ==
    \A r \in RoomIds :
        \A i, j \in 1..Len(rooms[r].users) :
            rooms[r].users[i] = rooms[r].users[j] => i = j

\* C3: when a join-room has completed and the same (roomId, userId) joins
\* again with nothing in between, the users list after the second call is
\* the list after the first.
C3_JoinIdempotent ==
    (AllIdle /\ lastJoin # NoJoin) =>
        FindById(lastJoin.roomId).users = lastJoin.users

\* a playback handler is about to compare the adminId of its payload with the
\* admin of an existing room, and they differ
NonAdminRequest(s) ==
    /\ h[s].pc = "pb_find"
    /\ FindById(h[s].roomId).exists
    /\ FindById(h[s].roomId).admin # h[s].userId

\* C4: a playback event whose adminId is not the room's admin changes no
\* field of any room and emits nothing to a room channel; the handler ends.
C4_NonAdminNoEffect ==
    [][\A s \in Slots :
          (NonAdminRequest(s) /\ h'[s] # h[s]) =>
              /\ rooms' = rooms
              /\ h'[s] = Idle
              /\ \A i \in 1..Len(emitted') : emitted'[i].to # "room"]_vars

\* C4 witness: play-video from a connection other than the admin's has just
\* been refused for a room with two members, which still has no video
C4_Witness ==
    /\ emitted = <<NotAdmin("c2")>>
    /\ rooms[1].exists
    /\ rooms[1].users = <<"u1", "u2">>
    /\ rooms[1].videoUrl = 0

\* C5: a playback event whose adminId is not the room's admin is answered
\* with room-error to the requesting connection, and to nobody else.
C5_NonAdminGetsError ==
    [][\A s \in Slots :
          (NonAdminRequest(s) /\ h'[s] # h[s]) =>
              /\ Len(emitted') = 1
              /\ emitted'[1].ev = "room-error"
              /\ emitted'[1].to = "socket"
              /\ emitted'[1].conn = h[s].conn]_vars

\* a handler is still deleting room r and its messages after dismissing it
Dismissing(r) ==
    \E s \in Slots : h[s].roomId = r /\ h[s].pc \in {"dp_del", "dp_delmsgs"}

\* C6: when the admin leaves or the admin's connection disconnects,
\* room-dismissed is broadcast and, once that handler has completed, the room
\* and every message that references it no longer exist.
C6_AdminDepartureDismisses ==
    /\ [][\A s \in Slots :
             (/\ h[s].pc = "lr_find"
              /\ FindById(h[s].roomId).exists
              /\ FindById(h[s].roomId).admin = h[s].userId
              /\ h'[s] # h[s]) =>
                 emitted' = <<ToRoom("room-dismissed", h[s].roomId, <<>>)>>]_vars
    /\ [](\A r \in dismissed :
             ~Dismissing(r) =>
                 /\ ~rooms[r].exists
                 /\ \A i \in 1..Len(messages) : messages[i].room # r)

\* C7: a join-room that was suspended when room-dismissed went out for its
\* room emits no room-joined and no update-participants afterwards, ends with
\* room-error, and the room never exists again.
C7_DismissalWinsOverJoin ==
    /\ [](\A s \in Slots :
             h[s].overtaken =>
                 ~(/\ h[s].pc = "jr_details"
                   /\ emitted # <<>>
                   /\ emitted[1].ev = "room-joined"
                   /\ emitted[1].conn = h[s].conn
                   /\ emitted[1].val.roomId = h[s].roomId))
    /\ [][\A s \in Slots :
             (h[s].overtaken /\ h'[s] = Idle) =>
                 emitted' = <<RoomError(h[s].conn)>>]_vars
    /\ [][\A r \in RoomIds :
             (r <= roomCount /\ ~rooms[r].exists) => ~rooms'[r].exists]_vars

\* C8: with no create-room in flight, a user is the admin of at most one room.
C8_OneRoomPerAdmin ==
    (\A s \in Slots : h[s].op # "create-room") =>
        \A u \in Users :
            Cardinality({r \in RoomIds : rooms[r].exists /\ rooms[r].admin = u}) <= 1

\* the persisted room holds what playback event e announces
Announced(e) ==
    LET room == rooms[e.room] IN
    /\ room.exists
    /\ e.ev = "load-video" =>
           room.videoUrl = e.val /\ ~room.isPlaying /\ room.playbackTime = 0
    /\ e.ev = "pause-video" => ~room.isPlaying /\ room.playbackTime = e.val
    /\ e.ev = "resume-video" => room.isPlaying /\ room.playbackTime = e.val
    /\ e.ev = "seek-video" => room.playbackTime = e.val

\* C9: when load-video, pause-video, resume-video or seek-video is broadcast,
\* the persisted room exists and holds the values the event announces.
C9_BroadcastMatchesRecord ==
    \A i \in 1..Len(emitted) :
        emitted[i].ev \in {"load-video", "pause-video", "resume-video", "seek-video"}
            => Announced(emitted[i])

\* C10: with no handler in flight, every persisted message references a room
\* that exists.
C10_NoOrphanMessages ==
    AllIdle => \A i \in 1..Len(messages) : rooms[messages[i].room].exists

\* C11: when join-room(R, U) and then leave-room(R, U) arrive on one
\* connection, U not being the admin of R, and both handlers have completed,
\* U is not in the users list of R and the connection is not in R's channel.
C11_SameConnectionOrder ==
    (/\ AllIdle
     /\ order.stage = "leave"
     /\ rooms[order.roomId].exists
     /\ rooms[order.roomId].admin # ToObjectId(order.userId)) =>
        /\ ~UserInList(rooms[order.roomId].users, ToObjectId(order.userId))
        /\ order.roomId \notin joined[order.conn]

\* C12: room-error is emitted only to the connection whose event failed,
\* never to a room channel and never to another connection.
C12_ErrorToCallerOnly ==
    \A i \in 1..Len(emitted) :
        emitted[i].ev = "room-error" =>
            emitted[i].to = "socket" /\ emitted[i].conn = origin

\* C12 witness: an event of c2 has failed while a handler of c1 is running
\* for a room that has two members
C12_Witness ==
    /\ emitted = <<RoomError("c2")>>
    /\ \E s \in Slots :
           /\ h[s].conn = "c1"
           /\ h[s].roomId \in RoomIds
           /\ Len(rooms[h[s].roomId].users) = 2

\* C13: no error escapes a handler: the promise of no handler is rejected.
C13_NoUncaughtError == ~uncaught

\* C15: the registry holds no entry for a connection that has disconnected.
C15_RegistryOnlyLive ==
    \A c \in Conns : ~connected[c] => socketToUserMap[c] = ""

\* C14: when the disconnect handler of a connection registered for user U
\* has run alone and completed, no room has U among its users or as its
\* admin, and every room in which U was a member but not the admin, with
\* other members left, has been sent update-participants without U.
C14_DisconnectCleansUp ==
    (AllIdle /\ alone.op = "disconnect") =>
        LET U == ToObjectId(alone.userId) IN
        \A r \in RoomIds :
            /\ rooms[r].exists =>
                   ~UserInList(rooms[r].users, U) /\ rooms[r].admin # U
            /\ (/\ alone.rooms[r].exists
                /\ alone.rooms[r].admin # U
                /\ UserInList(alone.rooms[r].users, U)
                /\ Pull(alone.rooms[r].users, U) # <<>>) =>
                   \E i \in 1..Len(alone.seen) :
                       alone.seen[i] = ToRoom("update-participants", r,
                                              Pull(alone.rooms[r].users, U))

\* the step is the write of an accepted playback event of ops on room r
WrittenBy(ops, r) ==
    \E s \in Slots :
        /\ h[s].pc = "pb_update" /\ h'[s].pc = "pb_emit"
        /\ h[s].roomId = r /\ h[s].op \in ops

\* a step changes the playbackTime of room r, which is paused before and after
PausedTimeChanges(r) ==
    /\ rooms[r].exists /\ rooms'[r].exists
    /\ ~rooms[r].isPlaying /\ ~rooms'[r].isPlaying
    /\ rooms'[r].playbackTime # rooms[r].playbackTime

\* C16 as stated: while isPlaying is false, only an accepted pause-video or
\* seek-video changes the playbackTime of a room.
C16_PausedTimeByPauseOrSeek ==
    [][\A r \in RoomIds :
          PausedTimeChanges(r) => WrittenBy({"pause-video", "seek-video"}, r)]_vars

\* C16 amended: while isPlaying is false, only an accepted play-video,
\* pause-video or seek-video changes the playbackTime of a room.
C16_PausedTimeByPlayPauseOrSeek ==
    [][\A r \in RoomIds :
          PausedTimeChanges(r) =>
              WrittenBy({"play-video", "pause-video", "seek-video"}, r)]_vars

\* C16 witness: seek-video has moved the clock of a paused room
C16_Witness ==
    \E s \in Slots :
        /\ h[s].pc = "pb_emit" /\ h[s].op = "seek-video"
        /\ rooms[h[s].roomId].exists
        /\ ~rooms[h[s].roomId].isPlaying
        /\ rooms[h[s].roomId].playbackTime = 1

\* C17: the write of an accepted play-video sets videoUrl to the url,
\* isPlaying to false and playbackTime to 0; pause-video sets isPlaying false
\* and playbackTime to the time; resume-video sets isPlaying true and
\* playbackTime to the time; seek-video sets playbackTime only; admin and
\* users are never changed; play-video then broadcasts load-video with the url.
C17_PlaybackEffects ==
    [][\A s \in Slots :
          LET r == h[s].roomId
              op == h[s].op
          IN
          /\ (h[s].pc = "pb_update" /\ h'[s].pc = "pb_emit" /\ rooms[r].exists) =>
                 /\ rooms'[r].exists
                 /\ rooms'[r].admin = rooms[r].admin
                 /\ rooms'[r].users = rooms[r].users
                 /\ op = "play-video" =>
                        /\ rooms'[r].videoUrl = h[s].arg
                        /\ ~rooms'[r].isPlaying
                        /\ rooms'[r].playbackTime = 0
                 /\ op = "pause-video" =>
                        ~rooms'[r].isPlaying /\ rooms'[r].playbackTime = h[s].arg
                 /\ op = "resume-video" =>
                        rooms'[r].isPlaying /\ rooms'[r].playbackTime = h[s].arg
                 /\ op = "seek-video" =>
                        /\ rooms'[r].playbackTime = h[s].arg
                        /\ rooms'[r].isPlaying = rooms[r].isPlaying
                        /\ rooms'[r].videoUrl = rooms[r].videoUrl
          /\ (h[s].pc = "pb_emit" /\ h'[s] = Idle /\ op = "play-video") =>
                 emitted' = <<ToRoom("load-video", r, h[s].arg)>>]_vars

\* C17 witness: the load-video of a play-video has just been broadcast and
\* the room holds the new url with the clock at 0, not playing
C17_Witness ==
    /\ emitted = <<ToRoom("load-video", 1, 1)>>
    /\ rooms[1].videoUrl = 1
    /\ ~rooms[1].isPlaying
    /\ rooms[1].playbackTime = 0

\* C18: the room.save() of a create-room adds exactly one room, with the
\* user as admin and only member, not playing, clock at 0; the connection
\* enters the room's channel and is registered for the user; room-created is
\* broadcast to the channel, and room-details after it.
C18_CreateRoomEffects ==
    [][\A s \in Slots :
          /\ (h[s].pc = "cr_save" /\ h'[s].pc = "cr_details") =>
                 LET n == h'[s].roomId
                     U == ToObjectId(h[s].userId)
                 IN
                 /\ n \in RoomIds /\ ~rooms[n].exists
                 /\ rooms'[n].exists
                 /\ rooms'[n].admin = U /\ rooms'[n].users = <<U>>
                 /\ ~rooms'[n].isPlaying /\ rooms'[n].playbackTime = 0
                 /\ \A r \in RoomIds \ {n} : rooms'[r] = rooms[r]
                 /\ joined'[h[s].conn] = joined[h[s].conn] \cup {n}
                 /\ socketToUserMap'[h[s].conn] = h[s].userId
                 /\ Len(emitted') = 1
                 /\ emitted'[1].ev = "room-created"
                 /\ emitted'[1].to = "room" /\ emitted'[1].room = n
          /\ (h[s].pc = "cr_details" /\ h'[s] = Idle) =>
                 /\ Len(emitted') = 1
                 /\ emitted'[1].ev = "room-details"
                 /\ emitted'[1].to = "room" /\ emitted'[1].room = h[s].roomId]_vars

\* C18 witness: create-room of u1 on c1 has completed
C18_Witness ==
    /\ AllIdle /\ started = 1
    /\ rooms[1].exists /\ rooms[1].admin = "u1" /\ rooms[1].users = <<"u1">>
    /\ 1 \in joined["c1"]
    /\ socketToUserMap["c1"] = "u1"
    /\ emitted = <<ToRoom("room-details", 1, <<"u1">>)>>

\* C19: a join-room that ends with room-error to its caller has not put the
\* connection into the room's channel, has written no registry entry and
\* has changed no users list.
C19_FailedJoinLeavesNothing ==
    [][\A s \in Slots :
          (/\ h[s].op = "join-room" /\ h'[s] = Idle
           /\ \E i \in 1..Len(emitted') : emitted'[i] = RoomError(h[s].conn)) =>
              ~JoinRegistered(s)]_vars

\* C20: a leave-room of a member who is not the admin, run alone to its end,
\* removes exactly that member's entry from users, keeps the other entries
\* in order and every other field of the room, keeps the room, and
\* broadcasts update-participants with the remaining members and then
\* room-details.
C20_MemberLeaves ==
    (AllIdle /\ alone.op = "leave-room") =>
        LET R == alone.roomId
            U == ToObjectId(alone.userId)
            before == alone.rooms[R]
            rest == SelectSeq(before.users, LAMBDA u : u # U)
        IN
        (before.exists /\ UserInList(before.users, U) /\ before.admin # U) =>
            /\ rooms[R] = [before EXCEPT !.users = rest]
            /\ Len(rest) = Len(before.users) - 1
            /\ alone.seen = <<ToRoom("update-participants", R, rest),
                              ToRoom("room-details", R, rest)>>

\* the state SpecAdminPulled starts from is a state of Spec
AdminPulledReached == AdminPulled /\ started = MaxEvents

\* C21: get-room-details is answered to the calling connection, with
\* room-details when the room exists and with room-error when it does not.
C21_GetRoomDetailsAnswered ==
    (AllIdle /\ alone.op = "get-room-details") =>
        IF alone.roomId \in RoomIds /\ alone.rooms[alone.roomId].exists
        THEN alone.seen = <<ToSocket("room-details", alone.conn,
                                     alone.rooms[alone.roomId].users)>>
        ELSE alone.seen = <<RoomError(alone.conn)>>

\* C22: receive-message is broadcast on the room channel only by the step
\* that has persisted exactly one message for that room and sender; when the
\* sender or the room is not found, nothing is persisted, nothing is
\* broadcast and the caller gets room-error.
C22_SendMessage ==
    [][/\ \A s \in Slots :
             LET r == h[s].roomId
                 sent == [room |-> r, senderId |-> ToObjectId(h[s].userId)]
                 refused == /\ h'[s] = Idle
                            /\ messages' = messages
                            /\ emitted' = <<RoomError(h[s].conn)>>
             IN
             /\ (h[s].pc = "sm_save" /\ h'[s] = Idle /\ messages' # messages) =>
                    /\ messages' = Append(messages, sent)
                    /\ emitted' = <<ToRoom("receive-message", r, sent)>>
             /\ (/\ h[s].pc = "sm_user" /\ h'[s] # h[s]
                 /\ ToObjectId(h[s].userId) \notin Users) => refused
             /\ (/\ h[s].pc = "sm_room" /\ h'[s] # h[s]
                 /\ ~FindById(r).exists) => refused
       /\ \A i \in 1..Len(emitted') :
             emitted'[i].ev = "receive-message" =>
                 /\ emitted'[i].to = "room"
                 /\ Len(messages') = Len(messages) + 1
                 /\ messages'[Len(messages')] = emitted'[i].val
                 /\ emitted'[i].room = emitted'[i].val.room]_vars

\* C22 witness: the message of u2, who is neither the admin nor a member of
\* room 1, has been persisted and broadcast to room 1
C22_Witness ==
    /\ emitted = <<ToRoom("receive-message", 1, [room |-> 1, senderId |-> "u2"])>>
    /\ messages = <<[room |-> 1, senderId |-> "u2"]>>
    /\ rooms[1].exists /\ rooms[1].users = <<"u1">>

\* the events a dismissed room must no longer produce
RoomEvents ==
    {"load-video", "pause-video", "resume-video", "seek-video",
     "update-participants", "room-details", "room-joined", "receive-message"}

\* the room an emitted event is about
RoomOf(e) ==
    IF e.to = "room" THEN e.room
    ELSE IF e.ev = "room-joined" THEN e.val.roomId
    ELSE 0

\* C23: once room-dismissed has been broadcast for a room, no load-video,
\* pause-video, resume-video, seek-video, update-participants, room-details,
\* room-joined or receive-message is emitted for that room any more.
C23_DismissedIsTerminal ==
    [][\A i \in 1..Len(emitted') :
          emitted'[i].ev \in RoomEvents => RoomOf(emitted'[i]) \notin dismissed]_vars

\* C24: with no handler in flight, every user in the users of an existing
\* room is the registry user of a live connection; and once every connection
\* has disconnected and all handlers have completed, no room exists.
C24_RegistryMatchesRooms ==
    AllIdle =>
        /\ \A r \in RoomIds :
              rooms[r].exists =>
                  \A i \in 1..Len(rooms[r].users) :
                      \E c \in Conns :
                          /\ connected[c]
                          /\ socketToUserMap[c] # ""
                          /\ ToObjectId(socketToUserMap[c]) = rooms[r].users[i]
        /\ (\A c \in Conns : ~connected[c]) =>
              \A r \in RoomIds : ~rooms[r].exists

\* C26: once the playback handlers of a room have all completed, the playback
\* event broadcast last (pause-video, resume-video or seek-video, which carry
\* a time) announces the isPlaying and playbackTime that the persisted record
\* of the room holds.
C26_LastBroadcastMatchesRecord ==
    (/\ AllIdle
     /\ Len(emitted) = 1
     /\ emitted[1].ev \in {"pause-video", "resume-video", "seek-video"}
     /\ rooms[emitted[1].room].exists) =>
        LET e == emitted[1]
            room == rooms[e.room]
        IN  /\ e.ev = "pause-video" => ~room.isPlaying /\ room.playbackTime = e.val
            /\ e.ev = "resume-video" => room.isPlaying /\ room.playbackTime = e.val
            /\ e.ev = "seek-video" => room.playbackTime = e.val

\* the registry user of connection c is the admin of room r
RegisteredAdmin(c, r) ==
    /\ socketToUserMap[c] # ""
    /\ rooms[r].exists
    /\ ToObjectId(socketToUserMap[c]) = rooms[r].admin

\* C27: a playback event received on a connection whose registry user is not
\* the room's admin changes no persisted playback state and causes no
\* playback broadcast, whatever adminId it carries.
C27_PlaybackByRegistryAdminOnly ==
    [][\A s \in Slots :
          (/\ h[s].op \in PlaybackOps
           /\ h'[s] # h[s]
           /\ ~RegisteredAdmin(h[s].conn, h[s].roomId)) =>
              /\ rooms'[h[s].roomId] = rooms[h[s].roomId]
              /\ \A i \in 1..Len(emitted') :
                     emitted'[i].ev \notin {PlaybackEvent(op) : op \in PlaybackOps}]_vars

\* C28: a room that still has members other than its admin is deleted only
\* after room-dismissed has been broadcast for it.
C28_DismissedBeforeDeleted ==
    [][\A r \in RoomIds :
          (/\ rooms[r].exists
           /\ ~rooms'[r].exists
           /\ \E i \in 1..Len(rooms[r].users) : rooms[r].users[i] # rooms[r].admin)
              => r \in dismissed]_vars

\* the connections socket.io delivers event e to
Recipients(e) ==
    {c \in Conns :
        /\ connected[c]
        /\ \/ e.to = "socket" /\ e.conn = c
           \/ e.to = "room" /\ e.room \in joined[c]
           \/ e.to = "voice" /\ e.room \in voice[c]}

VoiceEvents ==
    SignalOps \cup MicOps \cup {"user-joined-voice", "user-left-voice"}

\* C25: voice-offer, voice-answer and voice-candidate reach only the
\* connection that `to` names and carry from = the sender's socket id; these
\* events and join-voice, leave-voice, mic-enabled, mic-disabled change no
\* room, no message and no registry entry; join-voice and leave-voice change
\* only the sender's membership of that room's voice channel, never the
\* membership of a room channel.
C25_VoiceRelay ==
    [][(emitted' # <<>> /\ emitted'[1].ev \in VoiceEvents) =>
          LET e == emitted'[1]
          IN  /\ Len(emitted') = 1
              /\ e.ev \in SignalOps =>
                    /\ e.val.from = origin'
                    /\ Recipients(e) \subseteq
                          {c \in Conns : e.to = "socket" /\ e.conn = c}
              /\ UNCHANGED <<rooms, roomCount, messages, socketToUserMap, joined>>
              /\ \A c \in Conns, r \in 0..MaxRooms :
                    (r \in voice'[c]) # (r \in voice[c]) =>
                        /\ c = origin'
                        /\ r = e.room
                        /\ e.ev \in {"user-joined-voice", "user-left-voice"}]_vars

====
